---- MODULE Spec2Model ----
\* Model of app.py (Groq memory assistant): the meeting ledger, the natural
\* date/time interpreter, the keyword router of chat_with_ai and the main loop.
\*
\* Python strings are sequences of one-character strings, so that lower(),
\* replace(), split(), strip(), "in" and the clock-time regex are computed as
\* the code computes them.  A datetime is a number of seconds since the model's
\* epoch; day 0 of the epoch is a Monday.  A stored time "YYYY-MM-DD HH:MM" is
\* the record of its lexical fields [date, hh, mm].
EXTENDS Integers, Sequences, FiniteSets

VARIABLES pc, now, meetings, history, turns, last

vars == <<pc, now, meetings, history, turns, last>>

\* ---------------------------------------------------------------- bounds
MaxDay == 1        \* the clock runs over days 0..MaxDay
MaxTurns == 2      \* input lines read in one session

\* ---------------------------------------------------------------- strings
SP == <<" ">>
AT == <<" ","a","t"," ">>
TOMORROW == <<"t","o","m","o","r","r","o","w">>
NEXT == <<"n","e","x","t"," ">>
NINE_AM == <<"9","a","m">>
AM == <<"a","m">>
PM == <<"p","m">>

UpperCase ==
  [c \in {"A","C","D","E","H","I","L","N","Q","S","T","U","Y"} |->
     CASE c = "A" -> "a" [] c = "C" -> "c" [] c = "D" -> "d" [] c = "E" -> "e"
       [] c = "H" -> "h" [] c = "I" -> "i" [] c = "L" -> "l" [] c = "N" -> "n"
       [] c = "Q" -> "q" [] c = "S" -> "s" [] c = "T" -> "t" [] c = "U" -> "u"
       [] c = "Y" -> "y"]

\* the string as typed: a .lower() left out
LowerAsTyped(s) == s

\* str.lower()
Lower(s) == [i \in 1..Len(s) |-> IF s[i] \in DOMAIN UpperCase THEN UpperCase[s[i]] ELSE s[i]]

\* sub occurs in s at position i
OccursAt(s, sub, i) ==
  /\ i >= 1
  /\ i + Len(sub) - 1 <= Len(s)
  /\ \A k \in 1..Len(sub) : s[i + k - 1] = sub[k]

\* the "in" operator on strings
Contains(s, sub) == \E i \in 1..(Len(s) + 1) : OccursAt(s, sub, i)

\* first position of sub in s, 0 when absent (str.find + 1)
Find(s, sub) ==
  IF Contains(s, sub)
  THEN CHOOSE i \in 1..(Len(s) + 1) :
         OccursAt(s, sub, i) /\ \A j \in 1..(i - 1) : ~OccursAt(s, sub, j)
  ELSE 0

Drop(s, n) == SubSeq(s, n + 1, Len(s))

\* str.replace(sub, ""): every non-overlapping occurrence, left to right, one pass
RECURSIVE Replace(_, _)
Replace(s, sub) ==
  IF Len(s) < Len(sub) \/ Len(sub) = 0 THEN s
  ELSE IF OccursAt(s, sub, 1) THEN Replace(Drop(s, Len(sub)), sub)
  ELSE <<s[1]>> \o Replace(Tail(s), sub)

\* str.split(sep): the list of the parts between the occurrences of sep
RECURSIVE Split(_, _)
Split(s, sep) ==
  LET i == Find(s, sep) IN
    IF i = 0 THEN <<s>>
    ELSE <<SubSeq(s, 1, i - 1)>> \o Split(Drop(s, i + Len(sep) - 1), sep)

IsSpace(c) == c = " "

\* str.strip()
RECURSIVE LStrip(_)
LStrip(s) == IF Len(s) > 0 /\ IsSpace(s[1]) THEN LStrip(Tail(s)) ELSE s
RECURSIVE RStrip(_)
RStrip(s) == IF Len(s) > 0 /\ IsSpace(s[Len(s)]) THEN RStrip(SubSeq(s, 1, Len(s) - 1)) ELSE s
Strip(s) == LStrip(RStrip(s))

Digits == {"0","1","2","3","4","5","6","7","8","9"}
IsDigit(c) == c \in Digits
DigitVal(c) ==
  CASE c = "0" -> 0 [] c = "1" -> 1 [] c = "2" -> 2 [] c = "3" -> 3 [] c = "4" -> 4
    [] c = "5" -> 5 [] c = "6" -> 6 [] c = "7" -> 7 [] c = "8" -> 8 [] c = "9" -> 9

\* any(k in text for k in keywords)
AnyIn(text, keywords) == \E k \in 1..Len(keywords) : Contains(text, keywords[k])

\* for kw in keywords: title = title.replace(kw, "")
RECURSIVE StripKeywords(_, _)
StripKeywords(title, keywords) ==
  IF keywords = <<>> THEN title
  ELSE StripKeywords(Replace(title, Head(keywords)), Tail(keywords))

\* ---------------------------------------------------------------- keyword sets
add_keywords ==
  << <<"a","d","d"," ","m","e","e","t","i","n","g">>,
     <<"s","c","h","e","d","u","l","e">>,
     <<"m","a","k","e"," ","m","e","e","t","i","n","g">>,
     <<"c","r","e","a","t","e"," ","m","e","e","t","i","n","g">>,
     <<"n","e","w"," ","m","e","e","t","i","n","g">> >>

show_keywords ==
  << <<"s","h","o","w"," ","m","e","e","t","i","n","g","s">>,
     <<"l","i","s","t"," ","m","e","e","t","i","n","g","s">>,
     <<"u","p","c","o","m","i","n","g"," ","m","e","e","t","i","n","g","s">>,
     <<"v","i","e","w"," ","m","e","e","t","i","n","g","s">>,
     <<"a","n","y"," ","m","e","e","t","i","n","g","s">> >>

delete_keywords ==
  << <<"d","e","l","e","t","e"," ","m","e","e","t","i","n","g">>,
     <<"r","e","m","o","v","e"," ","m","e","e","t","i","n","g">>,
     <<"c","a","n","c","e","l"," ","m","e","e","t","i","n","g">> >>

days_map ==
  << <<"m","o","n","d","a","y">>,
     <<"t","u","e","s","d","a","y">>,
     <<"w","e","d","n","e","s","d","a","y">>,
     <<"t","h","u","r","s","d","a","y">>,
     <<"f","r","i","d","a","y">>,
     <<"s","a","t","u","r","d","a","y">>,
     <<"s","u","n","d","a","y">> >>

exit_words == { <<"e","x","i","t">>, <<"q","u","i","t">> }

\* ---------------------------------------------------------------- datetimes
\* datetime.strftime("%Y-%m-%d %H:%M"): the lexical fields, seconds dropped
strftime(dt) ==
  [date |-> dt \div 86400, hh |-> (dt % 86400) \div 3600, mm |-> (dt % 3600) \div 60]

\* datetime.strptime(s, "%Y-%m-%d %H:%M")
strptime(s) == s.date * 86400 + s.hh * 3600 + s.mm * 60

\* datetime.weekday(): Monday is 0
weekday(dt) == (dt \div 86400) % 7

\* timedelta(days=n) added to a datetime
plus_days(dt, n) == dt + n * 86400

\* ---------------------------------------------------------------- the clock-time token
\* re.search(r"\d{1,2}(:\d{2})?\s?(am|pm)?", text).group(), <<>> when there is no
\* match.  Every part after the first digit is optional, so the leftmost digit
\* starts the match and no backtracking happens.
DigitAt(s, i) == i >= 1 /\ i <= Len(s) /\ IsDigit(s[i])

time_match(text) ==
  IF \A i \in 1..Len(text) : ~IsDigit(text[i]) THEN <<>>
  ELSE
    LET i  == CHOOSE k \in 1..Len(text) :
                 IsDigit(text[k]) /\ \A j \in 1..(k - 1) : ~IsDigit(text[j])
        h  == IF DigitAt(text, i + 1) THEN i + 1 ELSE i
        m  == IF /\ h + 1 <= Len(text)
                 /\ text[h + 1] = ":"
                 /\ DigitAt(text, h + 2)
                 /\ DigitAt(text, h + 3)
              THEN h + 3 ELSE h
        w  == IF m + 1 <= Len(text) /\ IsSpace(text[m + 1]) THEN m + 1 ELSE m
        e  == IF OccursAt(text, AM, w + 1) \/ OccursAt(text, PM, w + 1) THEN w + 2 ELSE w
    IN SubSeq(text, i, e)

\* The fields of a clock-time token: hour, minute (-1 when absent) and the
\* am/pm suffix ("" when absent).
TokenFields(tok) ==
  LET hlen == IF DigitAt(tok, 2) THEN 2 ELSE 1
      hour == IF hlen = 2 THEN DigitVal(tok[1]) * 10 + DigitVal(tok[2]) ELSE DigitVal(tok[1])
      hasMin == hlen + 3 <= Len(tok) /\ tok[hlen + 1] = ":"
      minute == IF hasMin THEN DigitVal(tok[hlen + 2]) * 10 + DigitVal(tok[hlen + 3]) ELSE -1
      ampm == IF Len(tok) >= 3 /\ OccursAt(tok, AM, Len(tok) - 1) THEN "am"
              ELSE IF Len(tok) >= 3 /\ OccursAt(tok, PM, Len(tok) - 1) THEN "pm"
              ELSE ""
  IN [hour |-> hour, minute |-> minute, ampm |-> ampm]

\* What a call of the dateutil parser comes to: a datetime, or an exception.
Returned(dt) == [raised |-> FALSE, dt |-> dt]
Raised == [raised |-> TRUE, dt |-> 0]

\* dateutil's parser on "<date> <token>": the set of its possible outcomes.
\* The library is not part of the repository.  A token with an am/pm suffix is
\* a 12-hour clock time, a token H:MM a 24-hour one, and out-of-range fields
\* raise ValueError; what the library makes of a bare number after a complete
\* date is left open (either outcome).
date_parser_parse(date, time_str) ==
  LET f == TokenFields(time_str)
      mi == IF f.minute = -1 THEN 0 ELSE f.minute
      at(h) == Returned(date * 86400 + h * 3600 + mi * 60)
  IN IF f.ampm # ""
     THEN IF f.hour <= 12 /\ mi <= 59
          THEN {at((f.hour % 12) + (IF f.ampm = "pm" THEN 12 ELSE 0))}
          ELSE {Raised}
     ELSE IF f.minute # -1
     THEN IF f.hour <= 23 /\ mi <= 59 THEN {at(f.hour)} ELSE {Raised}
     ELSE {Raised} \cup (IF f.hour <= 23 THEN {at(f.hour)} ELSE {})

\* dateutil's parser on free text with fuzzy=True, default=now: the set of its
\* possible outcomes; tok is the clock token of the text.  Text without a clock
\* token raises.  A clock time
\* resolves on today's date, and with other words around it the library may
\* also fail.  What it makes of a bare number (an hour, a day of the month) is
\* left open.
date_parser_parse_fuzzy(text, tok, dt_now) ==
  LET f == TokenFields(tok)
      today == dt_now \div 86400
  IN IF tok = <<>> THEN {Raised}
     ELSE IF f.ampm = "" /\ f.minute = -1
     THEN {Raised, Returned(dt_now)} \cup date_parser_parse(today, tok)
     ELSE date_parser_parse(today, tok) \cup (IF tok = text THEN {} ELSE {Raised})

\* ---------------------------------------------------------------- interpreter
\* What parse_natural_datetime comes to: a formatted time, None, or an
\* exception that leaves the function.
Value(dt) == [kind |-> "value", time |-> strftime(dt)]
None == [kind |-> "none", time |-> strftime(0)]
Raises == [kind |-> "raise", time |-> strftime(0)]

\* days_ahead without lines 72-73: today's weekday resolves to today
days_ahead_unforced(i, dt_now) == ((i - weekday(dt_now)) + 7) % 7

\* lines 71-73: the days from today to the next day of index i (Monday = 0)
days_ahead(i, dt_now) ==
  LET d == ((i - weekday(dt_now)) + 7) % 7 IN IF d = 0 THEN 7 ELSE d

\* lines 69-70: the first index (Monday-first, from 1) whose "next <day>" is
\* in text; 0 if there is none
next_day(text) ==
  IF \E i \in 1..Len(days_map) : Contains(text, NEXT \o days_map[i])
  THEN CHOOSE i \in 1..Len(days_map) :
         /\ Contains(text, NEXT \o days_map[i])
         /\ \A j \in 1..(i - 1) : ~Contains(text, NEXT \o days_map[j])
  ELSE 0

\* What parse_natural_datetime reads off its argument alone (lines 58, 61, 63,
\* 70, 75): the text, the tests on it and the regex match.
phrase(raw) ==
  LET text == Strip(Lower(raw)) IN
    [text |-> text,
     tomorrow |-> Contains(text, TOMORROW),
     next |-> next_day(text),
     time_match |-> time_match(text)]

\* lines 64-66 and 76-78: the clock token (default "9am") on the base date
on_base_date(base_date, m) ==
  LET time_str == IF m # <<>> THEN m ELSE NINE_AM IN
    { IF o.raised THEN Raises ELSE Value(o.dt) :
        o \in date_parser_parse(base_date \div 86400, time_str) }

\* lines 81-85: the fallback; any exception of the library becomes None
fallback(ph, dt_now) ==
  { IF o.raised THEN None ELSE Value(o.dt) :
      o \in date_parser_parse_fuzzy(ph.text, ph.time_match, dt_now) }

\* parse_natural_datetime at the instant dt_now, on the phrase ph read off its
\* argument: its possible outcomes
parse_natural_datetime(ph, dt_now) ==
  IF ph.tomorrow
  THEN on_base_date(plus_days(dt_now, 1), ph.time_match)
  ELSE IF ph.next # 0
  THEN on_base_date(plus_days(dt_now, days_ahead(ph.next - 1, dt_now)), ph.time_match)
  ELSE fallback(ph, dt_now)

\* ---------------------------------------------------------------- meeting ledger
Meeting(title, time_str) == [title |-> title, time |-> time_str]

\* cleanup_old_meetings comparing with >= : a meeting at the very instant stays
cleanup_keeps_now(ms, dt_now) ==
  SelectSeq(ms, LAMBDA m : strptime(m.time) >= dt_now)

\* cleanup_old_meetings: the list it saves
cleanup_old_meetings(ms, dt_now) ==
  SelectSeq(ms, LAMBDA m : strptime(m.time) > dt_now)

\* add_meeting: the list it saves and its reply
add_meeting(ms, title, time_str) ==
  [meetings |-> Append(ms, Meeting(title, time_str)),
   reply |-> [kind |-> "scheduled", title |-> title, time |-> time_str]]

\* show_meetings: its reply
show_meetings(ms) ==
  IF ms = <<>> THEN [kind |-> "no_meetings"] ELSE [kind |-> "upcoming", entries |-> ms]

\* delete_meeting without the two lower(): titles compared as typed
delete_meeting_exact_case(ms, title) ==
  LET updated == SelectSeq(ms, LAMBDA m : m.title # title) IN
    [meetings |-> updated,
     reply |-> IF Len(updated) < Len(ms) THEN [kind |-> "deleted", title |-> title]
               ELSE [kind |-> "not_found"]]

\* delete_meeting: the list it saves and its reply
delete_meeting(ms, title) ==
  LET updated == SelectSeq(ms, LAMBDA m : Lower(m.title) # Lower(title)) IN
    [meetings |-> updated,
     reply |-> IF Len(updated) < Len(ms) THEN [kind |-> "deleted", title |-> title]
               ELSE [kind |-> "not_found"]]

\* ---------------------------------------------------------------- conversation history
\* lines 135-138: the stored entries as message objects
to_messages(hist) ==
  [i \in 1..Len(hist) |->
     [class |-> IF hist[i].type = "human" THEN "HumanMessage" ELSE "AIMessage",
      content |-> hist[i].content]]

\* lines 185-188 with the isinstance test on the wrong class
to_json_swapped(messages) ==
  [i \in 1..Len(messages) |->
     [type |-> IF messages[i].class = "AIMessage" THEN "human" ELSE "ai",
      content |-> messages[i].content]]

\* lines 185-188: the message objects as stored entries
to_json(messages) ==
  [i \in 1..Len(messages) |->
     [type |-> IF messages[i].class = "HumanMessage" THEN "human" ELSE "ai",
      content |-> messages[i].content]]

\* ---------------------------------------------------------------- chat_with_ai
NoReply == [kind |-> "none"]
ProvideTime == [kind |-> "provide_time"]            \* "Please provide a time, ..."
CouldntUnderstand == [kind |-> "time_not_understood"] \* "I couldn't understand the time. ..."
CouldntParse == [kind |-> "details_not_parsed"]     \* "Couldn't parse meeting details properly."

\* What a turn comes to.  branch: the arm of the if/elif cascade that ran;
\* called: the ledger operation or collaborator it called; parse: what
\* parse_natural_datetime came to ("n/a" when it was not called); raised: the
\* exception left chat_with_ai.
Outcome(branch, reply, ms, hist, called, title, parse, raised) ==
  [branch |-> branch, reply |-> reply, meetings |-> ms, history |-> hist,
   called |-> called, title |-> title, parse |-> parse, raised |-> raised]

\* the cascade with the show test ahead of the add test
route_show_first(text) ==
  IF AnyIn(text, show_keywords) THEN "show"
  ELSE IF AnyIn(text, add_keywords) THEN "add"
  ELSE IF AnyIn(text, delete_keywords) THEN "delete"
  ELSE "chat"

\* the branch of the cascade an utterance takes (lines 148, 168, 171, 178)
route(text) ==
  IF AnyIn(text, add_keywords) THEN "add"
  ELSE IF AnyIn(text, show_keywords) THEN "show"
  ELSE IF AnyIn(text, delete_keywords) THEN "delete"
  ELSE "chat"

\* lines 151-155: the title of the meeting to add
add_title(user_input) ==
  Strip(StripKeywords(Split(user_input, AT)[1], add_keywords))

\* lines 172-175: the title of the meeting to delete
delete_title(user_input) ==
  Strip(StripKeywords(user_input, delete_keywords))

\* What chat_with_ai reads off the utterance alone: the branch, the test for
\* " at ", the parts of the split, the titles and the time phrase.
reading(user_input) ==
  LET text == Lower(user_input)
      parts == Split(user_input, AT)
  IN [user_input |-> user_input,
      branch |-> route(text),
      has_at |-> Contains(text, AT),
      n_parts |-> Len(parts),
      add_title |-> add_title(user_input),
      delete_title |-> delete_title(user_input),
      phrase |-> phrase(IF Len(parts) >= 2 THEN Strip(parts[2]) ELSE <<>>)]

\* lines 148-166
add_branch(rd, ms, hist, dt_now) ==
  IF rd.has_at
  THEN IF rd.n_parts < 2
       THEN \* parts[1] raises IndexError, caught at line 165
            {Outcome("add", CouldntParse, ms, hist, "none", rd.add_title, "n/a", FALSE)}
       ELSE { CASE r.kind = "value" ->
                     LET a == add_meeting(ms, rd.add_title, r.time) IN
                       Outcome("add", a.reply, a.meetings, hist, "add_meeting",
                               rd.add_title, "value", FALSE)
                [] r.kind = "none" ->
                     Outcome("add", CouldntUnderstand, ms, hist, "none",
                             rd.add_title, "none", FALSE)
                [] r.kind = "raise" ->
                     Outcome("add", CouldntParse, ms, hist, "none",
                             rd.add_title, "raise", FALSE)
              : r \in parse_natural_datetime(rd.phrase, dt_now) }
  ELSE {Outcome("add", ProvideTime, ms, hist, "none", <<>>, "n/a", FALSE)}

\* lines 171-176
delete_branch(rd, ms, hist) ==
  LET d == delete_meeting(ms, rd.delete_title) IN
    {Outcome("delete", d.reply, d.meetings, hist, "delete_meeting",
             rd.delete_title, "n/a", FALSE)}

\* the replies the LLM collaborator may give
LLMReplies == { <<"o","k">> }

\* lines 178-182, then 185-189
chat_branch(rd, ms, hist0, messages) ==
  LET asked == Append(messages, [class |-> "HumanMessage", content |-> rd.user_input]) IN
    { Outcome("chat", [kind |-> "llm", content |-> c], ms,
              to_json(Append(asked, [class |-> "AIMessage", content |-> c])),
              "llm", <<>>, "n/a", FALSE) : c \in LLMReplies }
    \cup \* llm.invoke raises: nothing is saved
    {Outcome("chat", NoReply, ms, hist0, "llm", <<>>, "n/a", TRUE)}

\* chat_with_ai on the utterance read as rd: its possible outcomes, with the
\* ledger ms, the stored history hist0 and the clock at dt_now
chat_with_ai(rd, ms, hist0, dt_now) ==
  LET messages == to_messages(hist0)
      saved == to_json(messages)
  IN CASE rd.branch = "add" -> add_branch(rd, ms, saved, dt_now)
       [] rd.branch = "show" ->
            {Outcome("show", show_meetings(ms), ms, saved, "show_meetings", <<>>, "n/a", FALSE)}
       [] rd.branch = "delete" -> delete_branch(rd, ms, saved)
       [] rd.branch = "chat" -> chat_branch(rd, ms, hist0, messages)

\* ---------------------------------------------------------------- inputs
SCHEDULE == <<"s","c","h","e","d","u","l","e">>
SHOW_MEETINGS == <<"s","h","o","w"," ","m","e","e","t","i","n","g","s">>
DELETE_MEETING == <<"d","e","l","e","t","e"," ","m","e","e","t","i","n","g">>
REMOVE_MEETING == <<"r","e","m","o","v","e"," ","m","e","e","t","i","n","g">>
MEETING == <<"m","e","e","t","i","n","g">>
SYNC == <<"s","y","n","c">>
RETRO == <<"r","e","t","r","o">>
HELLO == <<"h","e","l","l","o">>
MONDAY == days_map[1]
FRIDAY == days_map[5]

\* the lines typed at the prompt
Utterances ==
  { SCHEDULE \o SP \o SYNC \o AT \o TOMORROW,
    <<"S">> \o Tail(SCHEDULE) \o SP \o SYNC \o AT \o TOMORROW \o SP \o <<"3","p","m">>,
    <<"a","d","d"," ">> \o SCHEDULE \o MEETING \o AT \o TOMORROW \o SP \o <<"9",":","3","0">>,
    SCHEDULE \o SP \o SYNC \o <<" ","A","T"," ">> \o TOMORROW,
    SCHEDULE \o SP \o SYNC,
    <<"S","C","H","E","D","U","L","E"," ","S","Y","N","C">>,
    SCHEDULE \o AT \o TOMORROW,
    SCHEDULE \o SP \o SHOW_MEETINGS \o AT \o TOMORROW \o SP \o <<"2","5",":","9","9">>,
    SCHEDULE \o SP \o SYNC \o AT \o NEXT \o MONDAY \o SP \o NEXT \o FRIDAY \o SP \o <<"3","p","m">>,
    SCHEDULE \o SP \o SYNC \o AT \o NEXT \o MONDAY \o SP \o <<"2","5",":","9","9">>,
    SCHEDULE \o SP \o SYNC \o AT \o <<"3","p","m">>,
    SCHEDULE \o SP \o SYNC \o AT \o <<"s","o","o","n">>,
    SHOW_MEETINGS \o SP \o DELETE_MEETING \o SP \o SYNC,
    DELETE_MEETING \o SP \o <<"S","Y","N","C">>,
    REMOVE_MEETING \o SP \o RETRO,
    HELLO,
    <<"Q","U","I","T">> }

\* the instants the clock shows: 09:00:00 and 09:00:30 of each day
Instants == { d * 86400 + 9 * 3600 + sec : d \in 0..MaxDay, sec \in {0, 30} }

At9(day) == [date |-> day, hh |-> 9, mm |-> 0]

\* the meetings file as earlier sessions left it (absent: the empty list)
InitialLedgers ==
  { <<>>,
    << Meeting(SYNC, At9(1)), Meeting(RETRO, At9(0)),
       Meeting(<<"S">> \o Tail(SYNC), At9(2)), Meeting(RETRO, At9(2)) >> }

\* the history file as earlier sessions left it (absent: the empty list)
InitialHistories ==
  { <<>>,
    << [type |-> "human", content |-> HELLO], [type |-> "ai", content |-> <<"o","k">>] >> }

\* main, line 201: input("You: ").strip(), and what chat_with_ai reads off it
Read == [line \in Utterances |-> reading(Strip(line))]

\* main, line 202: user_input.lower() in ["exit", "quit"]
IsExit == [line \in Utterances |-> Lower(Strip(line)) \in exit_words]

\* ---------------------------------------------------------------- the program
\* what the last step did, and the resources as it found them
Last(op, input, o, ms0, hist0) ==
  [op |-> op, input |-> input, branch |-> o.branch, reply |-> o.reply,
   called |-> o.called, title |-> o.title, parse |-> o.parse, raised |-> o.raised,
   meetings0 |-> ms0, history0 |-> hist0, at |-> now]

Idle == Outcome("none", NoReply, <<>>, <<>>, "none", <<>>, "n/a", FALSE)

Init ==
  /\ pc = "start"
  /\ now \in Instants
  /\ meetings \in InitialLedgers
  /\ history \in InitialHistories
  /\ turns = 0
  /\ last = Last("none", <<>>, Idle, meetings, history)

\* time passes between two steps of the program
Tick ==
  /\ pc \in {"start", "prompt"}
  /\ \E t \in Instants : t > now /\ now' = t
  /\ UNCHANGED <<pc, meetings, history, turns, last>>

\* main, lines 195-198: the banner, then cleanup_old_meetings()
Startup ==
  /\ pc = "start"
  /\ meetings' = cleanup_old_meetings(meetings, now)
  /\ pc' = "prompt"
  /\ last' = Last("cleanup", <<>>, Idle, meetings, history)
  /\ UNCHANGED <<now, history, turns>>

\* main, lines 201-204: "exit" or "quit" ends the loop
Exit ==
  /\ pc = "prompt"
  /\ \E line \in Utterances :
       /\ IsExit[line]
       /\ last' = Last("exit", Read[line].user_input, Idle, meetings, history)
  /\ pc' = "exited"
  /\ UNCHANGED <<now, meetings, history, turns>>

\* main with the call of chat_with_ai wrapped in a handler: the loop goes on
after_turn_caught(raised) == "prompt"

\* main, lines 200-209: where the loop stands after chat_with_ai; an exception
\* it raises leaves main, which has no handler
after_turn(raised) == IF raised THEN "crashed" ELSE "prompt"

\* main, lines 201-209: one line read and answered, the turn coming to o
Answer(line, o) ==
  /\ pc = "prompt"
  /\ turns < MaxTurns
  /\ ~IsExit[line]
  /\ meetings' = o.meetings
  /\ history' = o.history
  /\ pc' = after_turn(o.raised)
  /\ last' = Last("turn", Read[line].user_input, o, meetings, history)
  /\ turns' = turns + 1
  /\ UNCHANGED now

\* the outcomes chat_with_ai can come to on a line, in the current state
Outcomes(line) == chat_with_ai(Read[line], meetings, history, now)

AddTurn ==
  \E line \in Utterances :
    /\ Read[line].branch = "add"
    /\ \E o \in Outcomes(line) : Answer(line, o)

ShowTurn ==
  \E line \in Utterances :
    /\ Read[line].branch = "show"
    /\ \E o \in Outcomes(line) : Answer(line, o)

DeleteTurn ==
  \E line \in Utterances :
    /\ Read[line].branch = "delete"
    /\ \E o \in Outcomes(line) : Answer(line, o)

\* general chat, the LLM replying
ChatTurn ==
  \E line \in Utterances :
    /\ Read[line].branch = "chat"
    /\ \E o \in Outcomes(line) : ~o.raised /\ Answer(line, o)

\* general chat, llm.invoke raising
ChatTurnFails ==
  \E line \in Utterances :
    /\ Read[line].branch = "chat"
    /\ \E o \in Outcomes(line) : o.raised /\ Answer(line, o)

Next ==
  \/ Tick
  \/ Startup
  \/ Exit
  \/ AddTurn
  \/ ShowTurn
  \/ DeleteTurn
  \/ ChatTurn
  \/ ChatTurnFails

Spec == Init /\ [][Next]_vars

\* ---------------------------------------------------------------- the interpreter alone
\* The time phrases handed to parse_natural_datetime: every weekday alone,
\* with a clock time, with an out-of-range clock time and after another
\* "next <weekday>", and phrases of the two other branches.
TimePhrases ==
  { NEXT \o days_map[i] : i \in 1..Len(days_map) }
  \cup { NEXT \o days_map[i] \o SP \o <<"3","p","m">> : i \in 1..Len(days_map) }
  \cup { NEXT \o days_map[i] \o SP \o <<"2","5",":","9","9">> : i \in 1..Len(days_map) }
  \cup { NEXT \o FRIDAY \o SP \o NEXT \o days_map[i] : i \in 1..Len(days_map) }
  \cup { TOMORROW, TOMORROW \o SP \o NEXT \o MONDAY, <<"3","p","m">>, <<"s","o","o","n">> }

PhraseOf == [p \in TimePhrases |-> phrase(p)]

\* the instants the interpreter is called at: 09:00 and 23:30 of each day of a week
WeekInstants ==
  { d * 86400 + t : d \in 0..(Len(days_map) - 1), t \in {9 * 3600, 23 * 3600 + 1800} }

InitInterpreter ==
  /\ pc = "interpreter"
  /\ now \in WeekInstants
  /\ meetings = <<>>
  /\ history = <<>>
  /\ turns = 0
  /\ last = Last("none", <<>>, Idle, meetings, history)

\* one call of parse_natural_datetime(p) at the instant now
Interpret ==
  /\ pc = "interpreter"
  /\ \E p \in TimePhrases : \E r \in parse_natural_datetime(PhraseOf[p], now) :
       last' = [Last("parse", p, Idle, meetings, history) EXCEPT !.parse = r.kind, !.reply = r]
  /\ UNCHANGED <<pc, now, meetings, history, turns>>

\* the clock between two calls
ClockMoves ==
  /\ pc = "interpreter"
  /\ \E t \in WeekInstants : t > now /\ now' = t
  /\ UNCHANGED <<pc, meetings, history, turns, last>>

NextInterpreter ==
  \/ Interpret
  \/ ClockMoves

SpecInterpreter == InitInterpreter /\ [][NextInterpreter]_vars

\* ---------------------------------------------------------------- properties
IsPrefix(a, b) == Len(a) <= Len(b) /\ SubSeq(b, 1, Len(a)) = a

\* case-insensitive equality of two titles, character by character
Fold(c) == IF c \in DOMAIN UpperCase THEN UpperCase[c] ELSE c
SameTitle(a, b) == Len(a) = Len(b) /\ \A i \in 1..Len(a) : Fold(a[i]) = Fold(b[i])
Folded(s) == [i \in 1..Len(s) |-> Fold(s[i])]

\* the stored time t is strictly later than the instant dt, field by field
LaterThan(t, dt) ==
  \/ t.date > dt \div 86400
  \/ t.date = dt \div 86400 /\ t.hh * 3600 + t.mm * 60 > dt % 86400

\* the keywords each input line holds, case-insensitively, and whether it
\* holds the literal " at " as typed
Holds ==
  [u \in { Strip(line) : line \in Utterances } |->
     [add |-> AnyIn(Folded(u), add_keywords),
      show |-> AnyIn(Folded(u), show_keywords),
      delete |-> AnyIn(Folded(u), delete_keywords),
      at |-> Contains(u, AT),
      at_any_case |-> Contains(Folded(u), AT),
      capitals |-> Folded(u) # u]]

Turned == last.op = "turn"

\* C1: cleanup_old_meetings leaves exactly the entries whose stored time is
\* strictly later than now, in their original order (an entry at the very
\* instant is removed), and applying it again with the same now changes nothing.
C1_PruneExpired ==
  last.op = "cleanup" =>
    /\ meetings = SelectSeq(last.meetings0, LAMBDA m : LaterThan(m.time, last.at))
    /\ cleanup_old_meetings(meetings, last.at) = meetings

\* C1 witness: a cleanup that removed an entry at the very instant and an
\* earlier one, and kept a later one.
C1_Witness ==
  /\ last.op = "cleanup"
  /\ \E i \in 1..Len(last.meetings0) : strptime(last.meetings0[i].time) = last.at
  /\ \E i \in 1..Len(last.meetings0) : strptime(last.meetings0[i].time) < last.at
  /\ Len(meetings) >= 1

\* C2: delete_meeting(t) removes every entry whose title equals t
\* case-insensitively and keeps the others as they were; a second
\* delete_meeting(t) right after leaves the list as it is and answers
\* "Meeting not found.".
C2_DeleteByTitle ==
  last.called = "delete_meeting" =>
    /\ meetings = SelectSeq(last.meetings0, LAMBDA m : ~SameTitle(m.title, last.title))
    /\ delete_meeting(meetings, last.title).meetings = meetings
    /\ delete_meeting(meetings, last.title).reply.kind = "not_found"

\* C2 witness: a delete that removed two entries whose titles differ in case
\* from each other, and kept another entry.
C2_Witness ==
  /\ last.called = "delete_meeting"
  /\ Len(meetings) >= 1
  /\ \E i, j \in 1..Len(last.meetings0) :
       /\ last.meetings0[i].title # last.meetings0[j].title
       /\ SameTitle(last.meetings0[i].title, last.title)
       /\ SameTitle(last.meetings0[j].title, last.title)

C4_RoutePriority ==
  Turned =>
    /\ Holds[last.input].add => last.branch = "add"
    /\ (~Holds[last.input].add /\ Holds[last.input].show) => last.branch = "show"
    /\ (~Holds[last.input].add /\ ~Holds[last.input].show /\ Holds[last.input].delete) =>
         last.branch = "delete"
    /\ (last.called = "llm" \/ last.branch = "chat") =>
         (~Holds[last.input].add /\ ~Holds[last.input].show /\ ~Holds[last.input].delete)

\* C4 witness: an utterance with an add-keyword and a show-keyword answered by
\* the add branch.
C4_Witness ==
  /\ Turned
  /\ Holds[last.input].add
  /\ Holds[last.input].show
  /\ last.branch = "add"

\* the date a call of the interpreter returned lies n days after the day of the call
DaysAfter(n) == last.reply.time.date = (last.at \div 86400) + n

\* what C5 says of weekday w (from 1, Monday first) once the interpreter has
\* returned a time
NextWeekdayResult(w) ==
  /\ \E n \in 1..7 : DaysAfter(n)
  /\ last.reply.time.date % 7 = w - 1
  /\ weekday(last.at) = w - 1 => DaysAfter(7)

Interpreted == last.op = "parse" /\ last.parse = "value"

InText(sub) == Contains(Strip(Folded(last.input)), sub)

\* C5 (as claimed): for every weekday W, a phrase that holds "next W" and not
\* "tomorrow" resolves to a date 1 to 7 days after the reference date that
\* falls on W, and 7 days ahead when the reference day is W.
C5_EveryNextWeekday ==
  \A w \in 1..Len(days_map) :
    (Interpreted /\ InText(NEXT \o days_map[w]) /\ ~InText(TOMORROW)) => NextWeekdayResult(w)

\* C5 (amended): the same of W the first weekday, Monday first, whose
\* "next W" the phrase holds.
C5_FirstNextWeekday ==
  \A w \in 1..Len(days_map) :
    ( /\ Interpreted
      /\ InText(NEXT \o days_map[w])
      /\ \A v \in 1..(w - 1) : ~InText(NEXT \o days_map[v])
      /\ ~InText(TOMORROW) ) => NextWeekdayResult(w)

\* C5 witness: "next W" interpreted on a W, resolved a week ahead.
C5_Witness ==
  /\ Interpreted
  /\ \E w \in 1..Len(days_map) : InText(NEXT \o days_map[w]) /\ weekday(last.at) = w - 1
  /\ ~InText(TOMORROW)
  /\ DaysAfter(7)

\* C6 (as claimed): in the add branch, a time phrase that cannot be
\* interpreted gives the "couldn't understand the time" reply, stores nothing,
\* and the interpreter reports the failure as a value, never by raising.
C6_ParseFailureIsValue ==
  (Turned /\ last.branch = "add" /\ last.parse \in {"none", "raise"}) =>
    /\ last.reply = CouldntUnderstand
    /\ meetings = last.meetings0
    /\ last.parse = "none"

\* C7 (as claimed): after a failure of the LLM call the loop is still alive
\* and goes on to read the next line.
C7_LoopSurvivesLLMFailure ==
  (Turned /\ last.called = "llm" /\ last.raised) => (pc = "prompt" /\ ENABLED Exit)

\* C7 (amended): a failure of the LLM call ends the process: no reply is
\* given, nothing is saved, and no further line is read.
C7_LLMFailureEndsProcess ==
  (Turned /\ last.called = "llm" /\ last.raised) =>
    /\ pc = "crashed"
    /\ last.reply = NoReply
    /\ history = last.history0
    /\ meetings = last.meetings0
    /\ ~ENABLED Next

\* C7 witness: a general-chat turn whose LLM call failed.
C7_Witness ==
  /\ Turned
  /\ last.branch = "chat"
  /\ last.raised
  /\ turns < MaxTurns

\* C8 (as claimed): the title handed to add_meeting holds no add-keyword,
\* matched case-insensitively, and no leading or trailing whitespace.
C8_TitleHasNoAddKeyword ==
  last.called = "add_meeting" =>
    /\ ~AnyIn(Folded(last.title), add_keywords)
    /\ Strip(last.title) = last.title

WellFormedTime(t) ==
  /\ t \in [date : Nat, hh : 0..23, mm : 0..59]

\* C9 (as claimed): every stored record has a non-empty title and a time in
\* the fixed form.
C9_RecordsWellFormed ==
  \A i \in 1..Len(meetings) :
    /\ meetings[i].title # <<>>
    /\ WellFormedTime(meetings[i].time)

\* C10: the stored history only grows: whatever the step, the history it
\* found is a prefix of the history it left; a general-chat turn adds the
\* human utterance and then the AI reply; a meeting turn and a turn whose LLM
\* call fails leave it as it was.
C10_HistoryAppendOnly ==
  /\ IsPrefix(last.history0, history)
  /\ (Turned /\ last.branch = "chat" /\ ~last.raised) =>
       history = last.history0 \o
                   << [type |-> "human", content |-> last.input],
                      [type |-> "ai", content |-> last.reply.content] >>
  /\ (Turned /\ last.branch \in {"add", "show", "delete"}) => history = last.history0
  /\ (Turned /\ last.raised) => history = last.history0

\* C10 witness: a general-chat turn, answered, on a history that was not empty.
C10_Witness ==
  /\ Turned
  /\ last.branch = "chat"
  /\ ~last.raised
  /\ last.history0 # <<>>
  /\ Len(history) = Len(last.history0) + 2

====
